---- MODULE Spec2Model ----
(***************************************************************************)
(* LivePlot (src/liveplot.py): a multiprocessing.Process subclass that     *)
(* reads lines from a serial device, converts them, appends them to a      *)
(* series, optionally prints and logs them, and redraws a plot.            *)
(*                                                                         *)
(* Two processes are modelled: the caller (constructs the object, calls    *)
(* start() and join(), exits) and the loop (the forked child executing     *)
(* run()).  start() forks: the child gets a copy of the object's           *)
(* attributes (values, save_file); the Event `stopping' is shared.         *)
(***************************************************************************)
EXTENDS Integers, Sequences, FiniteSets, TLC

\* ---- bounds ----------------------------------------------------------
MaxReads == 3      \* lines the serial device delivers before it goes silent
MaxJoins == 2      \* explicit join() calls issued by the caller

\* ---- inputs ----------------------------------------------------------
None == "None"
Path == "/home/user/temp.dat"

\* raw lines as character sequences, as readline() returns them
RawLines == { <<"0", "\n">>, <<"2", "5", "6", "\r", "\n">>,
              <<"a", "b", "c", "\n">>, <<"\n">> }

\* contents the save path may hold before construction
OldData == << "9", "9", ".", "0", "\n" >>

\* ---- the example converter (convert_to_temp) and str() ----------------
a_ref == 5

Digits == <<"0", "1", "2", "3", "4", "5", "6", "7", "8", "9">>

IsDigit(c) == \E d \in 1..10 : Digits[d] = c

DigitVal(c) == (CHOOSE d \in 1..10 : Digits[d] = c) - 1

IsSpace(c) == c \in {" ", "\n", "\r", "\t"}

RECURSIVE LStrip(_)
LStrip(s) == IF s # <<>> /\ IsSpace(Head(s)) THEN LStrip(Tail(s)) ELSE s

RECURSIVE RStrip(_)
RStrip(s) == IF s # <<>> /\ IsSpace(s[Len(s)])
             THEN RStrip(SubSeq(s, 1, Len(s) - 1)) ELSE s

Strip(s) == RStrip(LStrip(s))

RECURSIVE ParseNat(_)
ParseNat(s) == IF s = <<>> THEN 0
               ELSE 10 * ParseNat(SubSeq(s, 1, Len(s) - 1)) + DigitVal(s[Len(s)])

\* float(line): surrounding whitespace is ignored; an empty or non-numeric
\* text raises ValueError.  Only unsigned integer literals occur in RawLines.
float(line) ==
    LET t == Strip(line)
    IN  IF t # <<>> /\ \A i \in 1..Len(t) : IsDigit(t[i])
        THEN [ok |-> TRUE, val |-> ParseNat(t)]
        ELSE [ok |-> FALSE, val |-> 0]

\* convert_to_temp: voltage = signal * a_ref / 1024, temperature =
\* (voltage - .5) * 100.  Voltage is kept in hundredths of a volt; the
\* signals of RawLines are multiples of 256, for which this is exact.
convert_to_temp(line) ==
    LET f == float(line)
        voltage100 == (f.val * a_ref * 100) \div 1024
    IN  IF f.ok THEN [ok |-> TRUE, val |-> voltage100 - 50]
        ELSE [ok |-> FALSE, val |-> 0]

comp(line) == convert_to_temp(line)

RECURSIVE NatStr(_)
NatStr(n) == IF n < 10 THEN << Digits[n + 1] >>
             ELSE NatStr(n \div 10) \o << Digits[(n % 10) + 1] >>

\* str() of an integral float: "-50.0", "75.0"
str(v) == (IF v < 0 THEN << "-" >> ELSE << >>)
          \o NatStr(IF v < 0 THEN -v ELSE v) \o << ".", "0" >>

\* the lines of a text: the pieces terminated by "\n" (plus an unterminated rest)
RECURSIVE SplitLines(_, _)
SplitLines(s, cur) ==
    IF s = <<>> THEN (IF cur = <<>> THEN <<>> ELSE << cur >>)
    ELSE IF Head(s) = "\n" THEN << cur >> \o SplitLines(Tail(s), <<>>)
    ELSE SplitLines(Tail(s), Append(cur, Head(s)))

Lines(s) == SplitLines(s, <<>>)

\* ---- state -----------------------------------------------------------
VARIABLES
    args,       \* constructor arguments: save, verb, dec, prop, cb, clean
    callerPc,   \* position of the caller
    loopPc,     \* position of the child process in run()
    started,    \* Process._popen is not None
    stopping,   \* the shared Event
    values,     \* self.values, one copy per process
    save_file,  \* self.save_file, one file object per process
    disk,       \* the file at the save path
    disk0,      \* what the save path held before construction
    ser,        \* the lines readline() has returned so far
    raw,        \* run(): local raw
    data,       \* run(): local data
    out,        \* what verbose mode printed
    fig,        \* what plot() drew last
    nplot,      \* number of draws
    iters,      \* completed iterations of the while loop
    err,        \* the last exception raised to the caller
    loopErr,    \* the exception that ended the child, if any
    njoin,      \* explicit join() calls so far
    closes,     \* times a file object was really closed
    joined,     \* a join() has returned normally
    exiting,    \* the caller's interpreter is shutting down
    atStop      \* sizes of series, log and plot when the Event was first set

vars == << args, callerPc, loopPc, started, stopping, values, save_file, disk, disk0,
           ser, raw, data, out, fig, nplot, iters, err, loopErr, njoin, closes,
           joined, exiting, atStop >>

\* self.fig = None: nothing drawn yet
NoFig == [drawn |-> FALSE, data |-> <<>>, dec |-> None, prop |-> None]

NoFile == [state |-> "none", buf |-> <<>>]

Finished == {"done", "failed"}

Init ==
    /\ args \in [save : {None, Path}, verb : BOOLEAN, dec : {None, "o"},
                 prop : {None, "alpha"}, cb : {None, "f"}, clean : {None, "x"}]
    /\ disk \in { [exists |-> FALSE, data |-> <<>>],
                  [exists |-> TRUE, data |-> OldData] }
    /\ disk0 = disk
    /\ callerPc = "new"
    /\ loopPc = "unborn"
    /\ started = FALSE
    /\ stopping = FALSE
    /\ values = [parent |-> <<>>, child |-> <<>>]
    /\ save_file = [parent |-> NoFile, child |-> NoFile]
    /\ ser = <<>>
    /\ raw = <<>>
    /\ data = 0
    /\ out = <<>>
    /\ fig = NoFig
    /\ nplot = 0
    /\ iters = 0
    /\ err = None
    /\ loopErr = None
    /\ njoin = 0
    /\ closes = 0
    /\ joined = FALSE
    /\ exiting = FALSE
    /\ atStop = [values |-> 0, plots |-> 0, logged |-> 0, pc |-> "unset"]

\* ---- file objects ----------------------------------------------------
\* variant: the file is opened in append mode, earlier contents are kept
open_a(d) == [exists |-> TRUE, data |-> d.data]

\* open(save, 'w+'): create the file or truncate it
open_w(d) == [exists |-> TRUE, data |-> <<>>]

\* file.close(): flushes and closes an open file; closing again does nothing
file_close(f) == IF f.state = "open" THEN [state |-> "closed", buf |-> <<>>] ELSE f

\* number of sample lines written to the log so far (flushed or buffered)
Logged == Len(Lines(disk.data \o save_file.child.buf))

\* ---- the caller ------------------------------------------------------
\* LivePlot.__init__
LivePlot_init ==
    /\ callerPc = "new"
    /\ stopping' = FALSE
    /\ values' = [values EXCEPT !.parent = <<>>]
    /\ IF args.save # None
       THEN /\ disk' = open_w(disk)
            /\ save_file' = [save_file EXCEPT !.parent = [state |-> "open", buf |-> <<>>]]
       ELSE UNCHANGED << disk, save_file >>
    /\ IF args.cb # None \/ args.clean # None
       THEN err' = "NotImplementedError" /\ callerPc' = "raised"
       ELSE err' = err /\ callerPc' = "idle"
    /\ UNCHANGED << args, disk0, loopPc, started, ser, raw, data, out, fig, nplot,
                    iters, loopErr, njoin, closes, joined, exiting, atStop >>

\* variant: run() is called in the caller instead of in a child process
start_inline ==
    /\ callerPc = "idle"
    /\ ~started
    /\ started' = TRUE
    /\ loopPc' = "setup"
    /\ callerPc' = "in_run"
    /\ values' = [values EXCEPT !.child = values.parent]
    /\ save_file' = [save_file EXCEPT !.child = save_file.parent]
    /\ UNCHANGED << args, disk0, stopping, disk, ser, raw, data, out, fig, nplot,
                    iters, err, loopErr, njoin, closes, joined, exiting, atStop >>

\* variant: start() creates a fresh, clear Event
start_clear ==
    /\ callerPc = "idle"
    /\ IF started
       THEN /\ err' = "AssertionError"
            /\ UNCHANGED << loopPc, started, values, save_file, stopping >>
       ELSE /\ started' = TRUE
            /\ loopPc' = "setup"
            /\ values' = [values EXCEPT !.child = values.parent]
            /\ save_file' = [save_file EXCEPT !.child = save_file.parent]
            /\ stopping' = FALSE
            /\ err' = err
    /\ UNCHANGED << args, disk0, callerPc, disk, ser, raw, data, out, fig, nplot,
                    iters, loopErr, njoin, closes, joined, exiting, atStop >>

\* Process.start(): fork a child that executes run(); a second start raises
start ==
    /\ callerPc = "idle"
    /\ IF started
       THEN /\ err' = "AssertionError"
            /\ UNCHANGED << loopPc, started, values, save_file >>
       ELSE /\ started' = TRUE
            /\ loopPc' = "setup"
            /\ values' = [values EXCEPT !.child = values.parent]
            /\ save_file' = [save_file EXCEPT !.child = save_file.parent]
            /\ err' = err
    /\ UNCHANGED << args, disk0, callerPc, stopping, disk, ser, raw, data, out, fig,
                    nplot, iters, loopErr, njoin, closes, joined, exiting, atStop >>

\* self.stopping.set()
stopping_set ==
    /\ stopping' = TRUE
    /\ atStop' = IF stopping THEN atStop
                 ELSE [values |-> Len(values.child), plots |-> nplot,
                       logged |-> Logged, pc |-> loopPc]

\* join(), first statement
join ==
    /\ callerPc = "idle"
    /\ njoin < MaxJoins
    /\ njoin' = njoin + 1
    /\ stopping_set
    /\ callerPc' = "join_close"
    /\ UNCHANGED << args, disk0, loopPc, started, values, save_file, disk, ser, raw,
                    data, out, fig, nplot, iters, err, loopErr, closes, joined,
                    exiting >>

\* variant: the descriptor is closed again on every call
join_close_again ==
    /\ callerPc = "join_close"
    /\ IF args.save # None
       THEN /\ save_file' = [save_file EXCEPT !.parent = [state |-> "closed", buf |-> <<>>]]
            /\ disk' = [disk EXCEPT !.data = @ \o save_file.parent.buf]
            /\ closes' = closes + 1
       ELSE UNCHANGED << save_file, disk, closes >>
    /\ callerPc' = "join_super"
    /\ UNCHANGED << args, disk0, loopPc, started, stopping, values, ser, raw, data,
                    out, fig, nplot, iters, err, loopErr, njoin, joined,
                    exiting, atStop >>

\* variant: closing also writes a final newline to the file
join_close_trailer ==
    /\ callerPc = "join_close"
    /\ IF args.save # None
       THEN /\ save_file' = [save_file EXCEPT !.parent = file_close(@)]
            /\ disk' = [disk EXCEPT !.data = @ \o save_file.parent.buf \o << "\n" >>]
            /\ closes' = IF save_file.parent.state = "open" THEN closes + 1 ELSE closes
       ELSE UNCHANGED << save_file, disk, closes >>
    /\ callerPc' = "join_super"
    /\ UNCHANGED << args, disk0, loopPc, started, stopping, values, ser, raw, data,
                    out, fig, nplot, iters, err, loopErr, njoin, joined,
                    exiting, atStop >>

\* variant: caller and loop share one file object (a thread, not a process)
join_close_shared ==
    /\ callerPc = "join_close"
    /\ IF args.save # None
       THEN /\ save_file' = [parent |-> file_close(save_file.parent),
                             child |-> IF started THEN file_close(save_file.child)
                                       ELSE save_file.child]
            /\ disk' = [disk EXCEPT !.data = @ \o save_file.parent.buf]
            /\ closes' = IF save_file.parent.state = "open" THEN closes + 1 ELSE closes
       ELSE UNCHANGED << save_file, disk, closes >>
    /\ callerPc' = "join_super"
    /\ UNCHANGED << args, disk0, loopPc, started, stopping, values, ser, raw, data,
                    out, fig, nplot, iters, err, loopErr, njoin, joined,
                    exiting, atStop >>

\* variant: the file object is closed without testing self.save; without a
\* save path the attribute does not exist
join_close_unguarded ==
    /\ callerPc = "join_close"
    /\ IF save_file.parent.state = "none"
       THEN /\ err' = "AttributeError"
            /\ callerPc' = "idle"
            /\ UNCHANGED << save_file, disk, closes >>
       ELSE /\ save_file' = [save_file EXCEPT !.parent = file_close(@)]
            /\ disk' = [disk EXCEPT !.data = @ \o save_file.parent.buf]
            /\ closes' = IF save_file.parent.state = "open" THEN closes + 1 ELSE closes
            /\ err' = err
            /\ callerPc' = "join_super"
    /\ UNCHANGED << args, disk0, loopPc, started, stopping, values, ser, raw, data,
                    out, fig, nplot, iters, loopErr, njoin, joined,
                    exiting, atStop >>

\* join(): if self.save is not None: self.save_file.close()
join_close ==
    /\ callerPc = "join_close"
    /\ IF args.save # None
       THEN /\ save_file' = [save_file EXCEPT !.parent = file_close(@)]
            /\ disk' = [disk EXCEPT !.data = @ \o save_file.parent.buf]
            /\ closes' = IF save_file.parent.state = "open" THEN closes + 1 ELSE closes
       ELSE UNCHANGED << save_file, disk, closes >>
    /\ callerPc' = "join_super"
    /\ UNCHANGED << args, disk0, loopPc, started, stopping, values, ser, raw, data,
                    out, fig, nplot, iters, err, loopErr, njoin, joined,
                    exiting, atStop >>

\* variant: join() does not wait for the child
join_super_nowait ==
    /\ callerPc = "join_super"
    /\ IF ~started
       THEN /\ err' = "AssertionError"
            /\ callerPc' = "idle"
            /\ joined' = joined
       ELSE /\ err' = err
            /\ joined' = TRUE
            /\ callerPc' = IF exiting THEN "exited" ELSE "idle"
    /\ UNCHANGED << args, disk0, loopPc, started, stopping, values, save_file, disk,
                    ser, raw, data, out, fig, nplot, iters, loopErr, njoin,
                    closes, exiting, atStop >>

\* variant: the wait ends only when the child has left the loop normally
join_super_cleanonly ==
    /\ callerPc = "join_super"
    /\ IF ~started
       THEN /\ err' = "AssertionError"
            /\ callerPc' = "idle"
            /\ joined' = joined
       ELSE /\ loopPc = "done"
            /\ err' = err
            /\ joined' = TRUE
            /\ callerPc' = IF exiting THEN "exited" ELSE "idle"
    /\ UNCHANGED << args, disk0, loopPc, started, stopping, values, save_file, disk,
                    ser, raw, data, out, fig, nplot, iters, loopErr, njoin,
                    closes, exiting, atStop >>

\* variant: joining a process that was never started returns at once
join_super_lenient ==
    /\ callerPc = "join_super"
    /\ (started => loopPc \in Finished)
    /\ err' = err
    /\ joined' = TRUE
    /\ callerPc' = IF exiting THEN "exited" ELSE "idle"
    /\ UNCHANGED << args, disk0, loopPc, started, stopping, values, save_file, disk,
                    ser, raw, data, out, fig, nplot, iters, loopErr, njoin,
                    closes, exiting, atStop >>

\* join(): super(...).join() -- raises if the process was never started,
\* otherwise blocks until the child has terminated
join_super ==
    /\ callerPc = "join_super"
    /\ IF ~started
       THEN /\ err' = "AssertionError"
            /\ callerPc' = "idle"
            /\ joined' = joined
       ELSE /\ loopPc \in Finished
            /\ err' = err
            /\ joined' = TRUE
            /\ callerPc' = IF exiting THEN "exited" ELSE "idle"
    /\ UNCHANGED << args, disk0, loopPc, started, stopping, values, save_file, disk,
                    ser, raw, data, out, fig, nplot, iters, loopErr, njoin,
                    closes, exiting, atStop >>

\* variant: the caller exits without joining its child
exit_nojoin ==
    /\ callerPc \in {"idle", "raised"}
    /\ exiting' = TRUE
    /\ callerPc' = "exited"
    /\ UNCHANGED << args, disk0, loopPc, started, stopping, values, save_file, disk,
                    ser, raw, data, out, fig, nplot, iters, err, loopErr, njoin,
                    closes, joined, atStop >>

\* The caller's script ends.  multiprocessing's exit handler calls join()
\* on every child that is still alive (the process is not a daemon).
exit ==
    /\ callerPc \in {"idle", "raised"}
    /\ exiting' = TRUE
    /\ IF started /\ loopPc \notin Finished
       THEN stopping_set /\ callerPc' = "join_close"
       ELSE callerPc' = "exited" /\ UNCHANGED << stopping, atStop >>
    /\ UNCHANGED << args, disk0, loopPc, started, values, save_file, disk, ser, raw,
                    data, out, fig, nplot, iters, err, loopErr, njoin, closes,
                    joined >>

\* ---- the loop (child process) ------------------------------------------
\* run(): plt.figure(); plt.ion(); plt.show(); plt.hold(False)
run_setup ==
    /\ loopPc = "setup"
    /\ loopPc' = "while"
    /\ UNCHANGED << args, disk0, callerPc, started, stopping, values, save_file, disk,
                    ser, raw, data, out, fig, nplot, iters, err, loopErr, njoin,
                    closes, joined, exiting, atStop >>

\* variant: the flag is a plain attribute copied at the fork, which the
\* child never sees change
run_while_stale ==
    /\ loopPc = "while"
    /\ loopPc' = "read"
    /\ UNCHANGED << args, disk0, callerPc, started, stopping, values, save_file, disk,
                    ser, raw, data, out, fig, nplot, iters, err, loopErr, njoin,
                    closes, joined, exiting, atStop >>

\* while not self.stopping.is_set()
run_while ==
    /\ loopPc = "while"
    /\ loopPc' = IF stopping THEN "done" ELSE "read"
    /\ UNCHANGED << args, disk0, callerPc, started, stopping, values, save_file, disk,
                    ser, raw, data, out, fig, nplot, iters, err, loopErr, njoin,
                    closes, joined, exiting, atStop >>

\* raw = self.ser.readline(): blocks until the device delivers a line
run_readline ==
    /\ loopPc = "read"
    /\ Len(ser) < MaxReads
    /\ \E line \in RawLines :
          /\ raw' = line
          /\ ser' = Append(ser, line)
    /\ loopPc' = "comp"
    /\ UNCHANGED << args, disk0, callerPc, started, stopping, values, save_file, disk,
                    data, out, fig, nplot, iters, err, loopErr, njoin, closes,
                    joined, exiting, atStop >>

\* readline() raises (the port was closed or unplugged)
run_readline_fail ==
    /\ loopPc = "read"
    /\ loopPc' = "failed"
    /\ loopErr' = "SerialException"
    /\ UNCHANGED << args, disk0, callerPc, started, stopping, values, save_file, disk,
                    ser, raw, data, out, fig, nplot, iters, err, njoin, closes,
                    joined, exiting, atStop >>

\* variant: a rejected line is skipped and the loop goes on
run_comp_skip ==
    /\ loopPc = "comp"
    /\ IF comp(raw).ok
       THEN data' = comp(raw).val /\ loopPc' = "append"
       ELSE data' = data /\ loopPc' = "while"
    /\ UNCHANGED << args, disk0, callerPc, started, stopping, values, save_file, disk,
                    ser, raw, out, fig, nplot, iters, err, loopErr, njoin,
                    closes, joined, exiting, atStop >>

\* data = self.comp(raw)
run_comp ==
    /\ loopPc = "comp"
    /\ IF comp(raw).ok
       THEN data' = comp(raw).val /\ loopPc' = "append" /\ loopErr' = loopErr
       ELSE data' = data /\ loopPc' = "failed" /\ loopErr' = "ValueError"
    /\ UNCHANGED << args, disk0, callerPc, started, stopping, values, save_file, disk,
                    ser, raw, out, fig, nplot, iters, err, njoin, closes,
                    joined, exiting, atStop >>

\* variant: the sample is inserted at the front
run_append_front ==
    /\ loopPc = "append"
    /\ values' = [values EXCEPT !.child = << data >> \o @]
    /\ loopPc' = "print"
    /\ UNCHANGED << args, disk0, callerPc, started, stopping, save_file, disk, ser,
                    raw, data, out, fig, nplot, iters, err, loopErr, njoin,
                    closes, joined, exiting, atStop >>

\* self.values.append(data)
run_append ==
    /\ loopPc = "append"
    /\ values' = [values EXCEPT !.child = Append(@, data)]
    /\ loopPc' = "print"
    /\ UNCHANGED << args, disk0, callerPc, started, stopping, save_file, disk, ser,
                    raw, data, out, fig, nplot, iters, err, loopErr, njoin,
                    closes, joined, exiting, atStop >>

\* if self.verb: print 'read: %splot: %s' % (raw, data)
run_print ==
    /\ loopPc = "print"
    /\ out' = IF args.verb THEN Append(out, << raw, str(data) >>) ELSE out
    /\ loopPc' = IF args.save # None THEN "write" ELSE "plot"
    /\ UNCHANGED << args, disk0, callerPc, started, stopping, values, save_file, disk,
                    ser, raw, data, fig, nplot, iters, err, loopErr, njoin,
                    closes, joined, exiting, atStop >>

\* save_data(): self.save_file.write(str(data) + '\n')
save_data_write ==
    /\ loopPc = "write"
    /\ IF save_file.child.state = "open"
       THEN /\ save_file' = [save_file EXCEPT !.child.buf = @ \o str(data) \o << "\n" >>]
            /\ loopPc' = "flush"
            /\ loopErr' = loopErr
       ELSE /\ save_file' = save_file
            /\ loopPc' = "failed"
            /\ loopErr' = "ValueError"
    /\ UNCHANGED << args, disk0, callerPc, started, stopping, values, disk, ser, raw,
                    data, out, fig, nplot, iters, err, njoin, closes, joined,
                    exiting, atStop >>

\* variant: the written line stays in the buffer (no flush)
save_data_noflush ==
    /\ loopPc = "flush"
    /\ loopPc' = "plot"
    /\ UNCHANGED << args, disk0, callerPc, started, stopping, values, save_file,
                    disk, ser, raw, data, out, fig, nplot, iters, err, loopErr,
                    njoin, closes, joined, exiting, atStop >>

\* save_data(): self.save_file.flush()
save_data_flush ==
    /\ loopPc = "flush"
    /\ disk' = [disk EXCEPT !.data = @ \o save_file.child.buf]
    /\ save_file' = [save_file EXCEPT !.child.buf = <<>>]
    /\ loopPc' = "plot"
    /\ UNCHANGED << args, disk0, callerPc, started, stopping, values, ser, raw, data,
                    out, fig, nplot, iters, err, loopErr, njoin, closes, joined,
                    exiting, atStop >>

\* the flush fails (the disk is full): IOError ends the child
save_data_fail ==
    /\ loopPc = "flush"
    /\ loopPc' = "failed"
    /\ loopErr' = "IOError"
    /\ UNCHANGED << args, disk0, callerPc, started, stopping, values, save_file, disk,
                    ser, raw, data, out, fig, nplot, iters, err, njoin, closes,
                    joined, exiting, atStop >>

\* variant: the flag is tested once before the loop, not after each draw
plot_noretest ==
    /\ loopPc = "plot"
    /\ fig' = [drawn |-> TRUE, data |-> values.child, dec |-> args.dec, prop |-> args.prop]
    /\ nplot' = nplot + 1
    /\ iters' = iters + 1
    /\ loopPc' = "read"
    /\ UNCHANGED << args, disk0, callerPc, started, stopping, values, save_file, disk,
                    ser, raw, data, out, err, loopErr, njoin, closes, joined,
                    exiting, atStop >>

\* variant: only the newest sample is drawn
plot_tail ==
    /\ loopPc = "plot"
    /\ fig' = [drawn |-> TRUE, data |-> << data >>, dec |-> args.dec, prop |-> args.prop]
    /\ nplot' = nplot + 1
    /\ iters' = iters + 1
    /\ loopPc' = "while"
    /\ UNCHANGED << args, disk0, callerPc, started, stopping, values, save_file, disk,
                    ser, raw, data, out, err, loopErr, njoin, closes, joined,
                    exiting, atStop >>

\* plot(): draw the whole series, then back to the loop condition
plot ==
    /\ loopPc = "plot"
    /\ fig' = [drawn |-> TRUE, data |-> values.child, dec |-> args.dec, prop |-> args.prop]
    /\ nplot' = nplot + 1
    /\ iters' = iters + 1
    /\ loopPc' = "while"
    /\ UNCHANGED << args, disk0, callerPc, started, stopping, values, save_file, disk,
                    ser, raw, data, out, err, loopErr, njoin, closes, joined,
                    exiting, atStop >>

Caller == LivePlot_init \/ start \/ join \/ join_close \/ join_super \/ exit

run == \/ run_setup
       \/ run_while
       \/ run_readline
       \/ run_readline_fail
       \/ run_comp
       \/ run_append
       \/ run_print
       \/ save_data_write
       \/ save_data_flush
       \/ save_data_fail
       \/ plot

Next == Caller \/ run

Spec == Init /\ [][Next]_vars

\* Steps of the child that need nothing but the processor: every step of
\* run() except the return (or failure) of readline(), which the device decides.
loopStep == \/ run_setup
            \/ run_while
            \/ run_comp
            \/ run_append
            \/ run_print
            \/ save_data_write
            \/ save_data_flush
            \/ plot

\* The operating system keeps scheduling both processes: the child goes on
\* while it can, and a caller inside join() goes on to close the file and
\* returns from the wait once the child has terminated.
FairSpec == Spec /\ WF_vars(loopStep) /\ WF_vars(join_close) /\ WF_vars(join_super)

\* ---- properties --------------------------------------------------------
\* what the log holds when every sample of the series was written in order
SeriesText == [i \in 1..Len(values.child) |-> str(values.child[i])]

\* C1: at every iteration boundary reached without a failure, after N
\* completed iterations the child's series has exactly N samples and sample i
\* is the conversion of the i-th line the device returned, in order.
C1_SeriesIsConvertedReads ==
    loopPc \in {"while", "done"} =>
        /\ Len(values.child) = iters
        /\ Len(ser) = iters
        /\ \A i \in 1..iters : comp(ser[i]).ok /\ values.child[i] = comp(ser[i]).val

C1_Witness ==
    /\ loopPc = "done"
    /\ iters = 3
    /\ values.child = << -50, 75, -50 >>

\* C2: with a save path, once a join() has returned and the loop ended without
\* a failure, the file holds exactly one line per sample of the series, line i
\* being str(series[i]) -- whatever the interleaving of join() with the loop.
C2_LogEqualsSeries ==
    (joined /\ loopPc = "done" /\ args.save # None) =>
        /\ disk.exists
        /\ Lines(disk.data) = SeriesText

C2_Witness ==
    /\ joined /\ loopPc = "done" /\ args.save # None
    /\ Len(values.child) = 2
    /\ atStop.values = 1
    /\ save_file.parent.state = "closed"

\* C3: a constructor call with cb or clean raises NotImplementedError, leaves
\* the process unstarted, and neither opens nor creates nor truncates the file
\* at the save path.
C3_RejectedBeforeIO ==
    [][ (callerPc = "new" /\ (args.cb # None \/ args.clean # None)) =>
            /\ callerPc' = "raised"
            /\ err' = "NotImplementedError"
            /\ ~started'
            /\ disk' = disk
            /\ save_file' = save_file ]_vars

\* C4: a join() issued after an earlier join() has returned changes nothing:
\* no error, the flag stays set, the file object was closed once, the child
\* is finished.
C4_SecondJoinNoEffect ==
    /\ [](joined => /\ stopping
                    /\ loopPc \in Finished
                    /\ closes = (IF args.save # None THEN 1 ELSE 0))
    /\ [][ (joined /\ (callerPc \in {"join_close", "join_super"} \/ callerPc' = "join_close")) =>
              UNCHANGED << stopping, save_file, disk, closes, loopPc, values, err, joined >> ]_vars

C4_Witness ==
    /\ njoin = 2 /\ callerPc = "idle" /\ joined /\ err = None
    /\ closes = 1
    /\ save_file.parent.state = "closed"

\* C5: once a join() has returned, the flag is set, the caller's file object
\* is closed if a save path was given, the child has terminated, and nothing
\* is read, appended, logged or drawn any more.
C5_JoinWaitsForLoop ==
    /\ [](joined => /\ stopping
                    /\ loopPc \in Finished
                    /\ (args.save # None => save_file.parent.state = "closed"))
    /\ [][ joined => UNCHANGED << ser, values, disk, nplot, out, loopPc >> ]_vars

C5_Witness ==
    /\ joined /\ loopPc = "done"
    /\ atStop.values = 1 /\ Len(values.child) = 2
    /\ nplot = 2

\* C6: a line the converter rejects is the last line ever read: the child
\* ends with the conversion error, and series, log and plot hold exactly the
\* samples of the lines before it.
C6_ConversionFailureEndsRun ==
    /\ [](\A i \in 1..Len(ser) :
            ~comp(ser[i]).ok =>
                /\ i = Len(ser)
                /\ loopPc \in {"comp", "failed"}
                /\ Len(values.child) = i - 1
                /\ \A j \in 1..(i - 1) : values.child[j] = comp(ser[j]).val
                /\ nplot = i - 1
                /\ (args.save # None => Lines(disk.data \o save_file.child.buf) = SeriesText)
                /\ (loopPc = "failed" => loopErr = "ValueError"))
    /\ [][ loopPc = "failed" => UNCHANGED << ser, values, disk, nplot, out, loopPc >> ]_vars

C6_Witness ==
    /\ loopPc = "failed" /\ loopErr = "ValueError"
    /\ Len(ser) = 3 /\ Len(values.child) = 2
    /\ ~comp(ser[3]).ok

\* C7: start() hands the loop to another process and returns at once: the
\* step that starts it performs no loop step, and from start() until the
\* caller itself calls join() or exits, the caller keeps control whatever the
\* loop does, also while the loop is blocked in readline().
C7_StartDoesNotWait ==
    /\ []((started /\ njoin = 0 /\ ~exiting) => callerPc = "idle")
    /\ [][ (~started /\ started') =>
              (callerPc' = "idle" /\ loopPc' = "setup" /\ ser' = ser /\ iters' = iters) ]_vars

C7_Witness ==
    /\ callerPc = "join_super"
    /\ loopPc = "read"
    /\ Len(ser) = MaxReads
    /\ ~exiting

\* C8: the Event starts clear, is never cleared once set, and is set only by
\* the first statement of join(); no step of the loop, failing or not, sets it.
C8_FlagSetOnce ==
    /\ ~stopping
    /\ [][ /\ (stopping => stopping')
           /\ ((~stopping /\ stopping') =>
                  (callerPc \in {"idle", "raised"} /\ callerPc' = "join_close")) ]_vars

C8_Witness ==
    /\ stopping /\ njoin = 2 /\ callerPc = "idle"
    /\ loopPc = "failed"
    /\ err = "AssertionError"

\* C9: when the caller's script ends without a join() call, the caller has
\* not exited before the child has terminated, and the child does nothing
\* afterwards.
C9_NoOrphan ==
    /\ []((callerPc = "exited" /\ started) => loopPc \in Finished)
    /\ [][ callerPc = "exited" => UNCHANGED << ser, values, disk, nplot, out, loopPc >> ]_vars

C9_Witness ==
    /\ callerPc = "exited" /\ njoin = 0 /\ started
    /\ loopPc = "done" /\ iters = 2

\* C10: the loop leaves only at the loop condition and only with the flag
\* set, a pending readline() is left only by its own return or failure, and
\* after the flag is set at most one more sample is appended, logged and drawn.
C10_CooperativeStop ==
    /\ [](stopping => /\ Len(values.child) <= atStop.values + 1
                      /\ Logged <= atStop.logged + 1
                      /\ nplot <= atStop.plots + 1)
    /\ [][ /\ (loopPc' = "done" /\ loopPc # "done" => loopPc = "while" /\ stopping)
           /\ (loopPc = "while" /\ stopping => loopPc' # "read")
           /\ (loopPc = "read" => loopPc' \in {"read", "comp", "failed"}) ]_vars

C10_Witness ==
    /\ stopping /\ loopPc = "done" /\ args.save # None
    /\ Len(values.child) = atStop.values + 1
    /\ Logged = atStop.logged + 1
    /\ nplot = atStop.plots + 1

\* a join() is under way on a started process
InJoin == started /\ callerPc \in {"join_close", "join_super"}

\* C11: once join() has been called on a started process and the child is
\* not (or no longer) inside readline(), the child terminates and join()
\* returns; as long as the child stays inside readline(), join() does not
\* return.
C11_StopReturnsIffReadEnds ==
    /\ (InJoin /\ loopPc # "read") ~> joined
    /\ [][ (InJoin /\ loopPc = "read" /\ loopPc' = "read") =>
              (callerPc' \in {"join_close", "join_super"} /\ ~joined') ]_vars

C11_Witness ==
    /\ joined /\ loopPc = "done"
    /\ atStop.pc = "read"
    /\ Len(values.child) = atStop.values + 1

IsPrefix(a, b) == Len(a) <= Len(b) /\ SubSeq(b, 1, Len(a)) = a

\* the lines that have reached the file
Flushed == Lines(disk.data)

\* C12: with a save path, after construction the flushed lines of the file
\* are always a prefix of the stringified series, the series is never more
\* than one sample ahead of the file, and at the loop condition and at the
\* draw the two have the same length.
C12_LogFollowsSeries ==
    (args.save # None /\ callerPc # "new") =>
        /\ IsPrefix(Flushed, SeriesText)
        /\ Len(values.child) <= Len(Flushed) + 1
        /\ (loopPc \in {"while", "plot", "done"} => Len(Flushed) = Len(values.child))

C12_Witness ==
    /\ args.save # None
    /\ loopPc = "flush"
    /\ Len(values.child) = 3
    /\ Len(Flushed) = 2

\* a step of the caller after construction / a step of the child
CallerStep == callerPc # "new" /\ (callerPc' # callerPc \/ started' # started \/ err' # err)

ChildStep == started /\ loopPc' # loopPc

\* C13 as stated: no step of the caller after construction touches the
\* series, the file object, the file or the plot.
C13_OnlyRunStateShared ==
    [][ CallerStep =>
            /\ disk' = disk /\ fig' = fig /\ nplot' = nplot
            /\ values.parent' = values.parent
            /\ save_file.parent' = save_file.parent
            /\ (started => values' = values /\ save_file' = save_file) ]_vars

\* C13 amended: the caller never touches the series, the plot or the
\* contents of the file, and the only thing it does to the log is to close
\* its own file object in join(); the child never touches the caller's file
\* object or series, and never writes the Event.
C13_CallerOnlyClosesLog ==
    [][ /\ (CallerStep =>
              /\ disk' = disk /\ fig' = fig /\ nplot' = nplot /\ out' = out
              /\ values.parent' = values.parent
              /\ (started => values' = values /\ save_file.child' = save_file.child)
              /\ (save_file.parent' # save_file.parent =>
                     /\ callerPc = "join_close"
                     /\ save_file.parent.state = "open"
                     /\ save_file.parent'.state = "closed"))
        /\ (ChildStep =>
              /\ stopping' = stopping
              /\ save_file.parent' = save_file.parent
              /\ values.parent' = values.parent) ]_vars

C13_Witness ==
    /\ callerPc = "join_super"
    /\ save_file.parent.state = "closed" /\ closes = 1
    /\ loopPc = "plot"
    /\ Len(values.child) = 1

\* C14: the child never writes to or flushes a closed file object: at the
\* write and at the flush its file object is open, the write never fails for
\* a closed file, and a ValueError in the child comes from the converter only.
C14_NoWriteOnClosedFile ==
    /\ [](loopPc \in {"write", "flush"} => save_file.child.state = "open")
    /\ [](loopErr = "ValueError" => ~comp(raw).ok)
    /\ [][ loopPc = "write" => loopPc' \in {"write", "flush"} ]_vars

C14_Witness ==
    /\ loopPc = "write"
    /\ callerPc = "join_super"
    /\ save_file.parent.state = "closed"
    /\ save_file.child.state = "open"

\* C15: a failure of readline(), of the converter or of the log write ends
\* the child without touching the caller or the Event; a join() issued
\* afterwards sets the Event, closes the file object and returns normally.
C15_FailureSeenOnlyByJoin ==
    /\ [][ (loopPc' = "failed" /\ loopPc # "failed") =>
              UNCHANGED << stopping, err, callerPc, joined >> ]_vars
    /\ [][ (loopPc = "failed" /\ started /\ callerPc = "join_super") => err' = err ]_vars
    /\ (loopPc = "failed" /\ callerPc = "join_close") ~>
          (joined /\ stopping /\ (args.save # None => save_file.parent.state = "closed"))

C15_Witness ==
    /\ joined /\ loopPc = "failed" /\ loopErr = "IOError"
    /\ atStop.pc = "failed"
    /\ err = None
    /\ save_file.parent.state = "closed"

\* C16: without a save path the file system is left alone: the path's file
\* keeps what it held, no file object exists in either process, nothing is
\* closed, the loop never reaches the write, and join() raises nothing for
\* the missing file object.
C16_NoSaveNoFile ==
    args.save = None =>
        /\ disk = disk0
        /\ save_file = [parent |-> NoFile, child |-> NoFile]
        /\ closes = 0
        /\ loopPc \notin {"write", "flush"}
        /\ loopErr # "IOError"
        /\ err # "AttributeError"

C16_Witness ==
    /\ args.save = None /\ disk0.exists
    /\ joined /\ njoin = 2 /\ err = None
    /\ iters = 2

\* C17: every iteration draws once, after the append and after the log
\* write: the k-th draw shows the whole series, which then has exactly k
\* samples, indexed in insertion order.
C17_DrawWholeSeriesOnce ==
    /\ [](/\ nplot = iters
          /\ Len(values.child) - nplot \in {0, 1}
          /\ (fig.drawn <=> nplot >= 1)
          /\ (fig.drawn => fig.data = SubSeq(values.child, 1, nplot)))
    /\ [][ nplot' # nplot =>
              /\ nplot' = nplot + 1
              /\ loopPc = "plot"
              /\ fig'.data = values.child
              /\ Len(values.child) = nplot'
              /\ fig'.dec = args.dec /\ fig'.prop = args.prop
              /\ (args.save # None => Flushed = SeriesText) ]_vars

C17_Witness ==
    /\ nplot = 3 /\ loopPc = "while"
    /\ fig.data = << 75, -50, 75 >>

\* C18: join() on a process not yet started raises instead of returning, with
\* the Event set and the file object closed; a process started after that
\* leaves the loop at its first test, with nothing read, appended or drawn.
C18_StopBeforeStart ==
    /\ []((err = "AssertionError" /\ ~started) =>
             /\ stopping /\ ~joined
             /\ (args.save # None => save_file.parent.state = "closed"))
    /\ []((started /\ atStop.pc = "unborn") =>
             /\ ser = <<>> /\ values.child = <<>> /\ iters = 0 /\ nplot = 0
             /\ loopPc \in {"setup", "while", "done"})
    /\ [][ (callerPc = "join_super" /\ ~started) =>
              (err' = "AssertionError" /\ ~joined' /\ callerPc' = "idle") ]_vars

C18_Witness ==
    /\ started /\ loopPc = "done" /\ atStop.pc = "unborn"
    /\ err = "AssertionError"
    /\ iters = 0
    /\ save_file.child.state = "closed"

\* C19: construction with a save path leaves the file existing and empty,
\* whatever it held; from then on every line of the file is the string of the
\* sample of the same index of this run, and a loop that ended normally
\* leaves exactly those lines.
C19_WriteCreateMode ==
    /\ [][ (callerPc = "new" /\ args.save # None) =>
              disk' = [exists |-> TRUE, data |-> <<>>] ]_vars
    /\ []((args.save # None /\ callerPc # "new") =>
             /\ disk.exists
             /\ \A i \in 1..Len(Flushed) :
                   i <= Len(values.child) /\ Flushed[i] = str(values.child[i])
             /\ (loopPc = "done" => Len(Flushed) = Len(values.child)))

C19_Witness ==
    /\ args.save # None
    /\ disk0 = [exists |-> TRUE, data |-> OldData]
    /\ loopPc = "done"
    /\ Flushed = << str(-50) >>
====
